---- MODULE Spec2Model ----
(***************************************************************************)
(* Model of the milli indexer binary (src/bin/indexer.rs): N workers each  *)
(* scan the whole CSV, index the records of their residue class into a     *)
(* postings sorter and a documents sorter, finish into two sorted tables,  *)
(* and the main thread merges the tables into LMDB inside one write        *)
(* transaction.                                                            *)
(*                                                                         *)
(* Byte strings (keys, words) are run-length encoded: a sequence of runs   *)
(* <<byte, count>> with count > 0 and no two neighbouring runs of the same *)
(* byte, so that equality of the encodings is equality of the bytes.       *)
(***************************************************************************)
EXTENDS Integers, Sequences, FiniteSets, TLC

\* ---------------------------------------------------------------- bounds
MaxRecords == 2
MaxThreads == 2
MaxCache == 1
PipeCapacity == 1
MaxValues == 3
MaxInserted == 2

\* ------------------------------------------------------ program constants
LMDB_MAX_KEY_LENGTH == 511
MAX_POSITION == 1000
MAX_ATTRIBUTES == 4294967
HEADERS_BYTE == 0
WORD_DOCID_POSITIONS_BYTE == 1
WORD_DOCIDS_BYTE == 2
WORDS_PROXIMITIES_BYTE == 5
DOCUMENTS_IDS_BYTE == 4
WORDS_FST_BYTE == 6

\* ------------------------------------------------------------ byte strings
Min(a, b) == IF a <= b THEN a ELSE b

\* One run of n copies of byte c (the empty string when n = 0).
Rep(c, n) == IF n = 0 THEN <<>> ELSE << <<c, n>> >>

\* Concatenation of two byte strings, keeping the encoding canonical. (In
\* Cat, as in other operators below, a value used several times is bound by
\* a set constructor, { e : x \in {v} }: TLC then evaluates it once, also
\* inside ENABLED, where it does not keep the value of a LET.)
CatRuns(s, t) ==
    IF s = <<>> THEN t
    ELSE IF t = <<>> THEN s
    ELSE IF s[Len(s)][1] = t[1][1]
         THEN SubSeq(s, 1, Len(s) - 1)
              \o << <<t[1][1], s[Len(s)][2] + t[1][2]>> >>
              \o Tail(t)
         ELSE s \o t
Cat(s, t) == CHOOSE r \in { CatRuns(a, b) : a \in {s}, b \in {t} } : TRUE

RECURSIVE ByteLen(_)
ByteLen(s) == IF s = <<>> THEN 0 ELSE s[1][2] + ByteLen(Tail(s))

\* s[n..]: the string without its first n bytes (n <= the first run).
DropBytes(s, n) ==
    IF n = 0 THEN s
    ELSE IF s[1][2] = n THEN Tail(s)
    ELSE << <<s[1][1], s[1][2] - n>> >> \o Tail(s)

FirstByte(s) == s[1][1]

\* A string of single bytes, e.g. b"headers".
RECURSIVE Lit(_)
Lit(bytes) == IF bytes = <<>> THEN <<>> ELSE Cat(Rep(bytes[1], 1), Lit(Tail(bytes)))

\* Byte-wise lexicographic order, the order of the sorters and of LMDB. (The
\* rests of the strings are bound by quantifiers, so that TLC evaluates them
\* once, also inside ENABLED.)
RECURSIVE BytesLess(_, _)
BytesLess(s, t) ==
    IF t = <<>> THEN FALSE
    ELSE IF s = <<>> THEN TRUE
    ELSE IF s[1][1] # t[1][1] THEN s[1][1] < t[1][1]
    ELSE \E m \in {Min(s[1][2], t[1][2])} :
           \E s1 \in {DropBytes(s, m)} : \E t1 \in {DropBytes(t, m)} : BytesLess(s1, t1)

\* u32::to_be_bytes and u32::from_be_bytes.
to_be_bytes(id) ==
    Lit(<< id \div 16777216, (id \div 65536) % 256, (id \div 256) % 256, id % 256 >>)

RECURSIVE Expand(_)
Expand(s) ==
    IF s = <<>> THEN <<>>
    ELSE <<s[1][1]>> \o Expand(DropBytes(s, 1))

from_be_bytes(key) ==
    LET b == Expand(key)
    IN  b[1] * 16777216 + b[2] * 65536 + b[3] * 256 + b[4]

\* ------------------------------------------------------------------- keys
HEADERS_KEY == Cat(Rep(HEADERS_BYTE, 1), Lit(<<104, 101, 97, 100, 101, 114, 115>>))
DOCUMENTS_IDS_KEY ==
    Cat(Rep(DOCUMENTS_IDS_BYTE, 1),
        Lit(<<100, 111, 99, 117, 109, 101, 110, 116, 115, 45, 105, 100, 115>>))

\* WORDS_FST_KEY with a first byte below the documents-ids and proximity prefixes.
WORDS_FST_KEY_low == Cat(Rep(3, 1), Lit(<<119, 111, 114, 100, 115, 45, 102, 115, 116>>))

WORDS_FST_KEY ==
    Cat(Rep(WORDS_FST_BYTE, 1), Lit(<<119, 111, 114, 100, 115, 45, 102, 115, 116>>))

\* lmdb_key_valid_size without the length test.
key_not_empty(key) == key # <<>>

lmdb_key_valid_size(key) == key # <<>> /\ ByteLen(key) <= LMDB_MAX_KEY_LENGTH

\* The keys built by write_words_proximities, write_docid_word_positions and
\* write_word_docids.
ProximityKey(w1, w2, prox) ==
    Cat(Cat(Cat(Cat(Rep(WORDS_PROXIMITIES_BYTE, 1), w1), Rep(0, 1)), w2), Rep(prox, 1))
\* The positional key without the document id in it.
PositionsKeyWithoutId(id, word) ==
    Cat(Cat(Rep(WORD_DOCID_POSITIONS_BYTE, 1), to_be_bytes(0)), word)
PositionsKey(id, word) ==
    Cat(Cat(Rep(WORD_DOCID_POSITIONS_BYTE, 1), to_be_bytes(id)), word)
WordDocidsKey(word) == Cat(Rep(WORD_DOCIDS_BYTE, 1), word)

\* ------------------------------------------------------------------ input
\* Tokens as the tokenizer yields them (before to_lowercase): "a", "b", "A",
\* a 508-byte word (its word-docids key fits LMDB, its positional key does
\* not) and a 511-byte word (no key of it fits).
TokA == Rep(97, 1)
TokB == Rep(98, 1)
TokUpperA == Rep(65, 1)
TokLong == Rep(108, 508)
TokHuge == Rep(120, 511)

\* A record is a sequence of fields, a field the sequence of its tokens.
RecordPool ==
    { << <<TokA, TokB, TokA>> >>,
      << <<TokB>>, <<TokUpperA, TokB>> >>,
      << <<TokA, TokLong, TokHuge>> >> }

HeaderPool == { << <<TokA>>, <<TokB>> >> }

RECURSIVE SeqsUpTo(_, _)
SeqsUpTo(S, n) ==
    IF n = 0 THEN { <<>> }
    ELSE LET shorter == SeqsUpTo(S, n - 1)
         IN  shorter \cup { Append(s, x) : s \in { t \in shorter : Len(t) = n - 1 }, x \in S }

Inputs == { [headers |-> h, records |-> r] : h \in HeaderPool, r \in SeqsUpTo(RecordPool, MaxRecords) }

\* The inputs given on the standard input: rows that differ, so that a row
\* out of its place shows.
StdinRecordPool ==
    { << <<TokA>> >>,
      << <<TokB>> >> }

StdinInputs ==
    { [headers |-> h, records |-> r] : h \in HeaderPool, r \in SeqsUpTo(StdinRecordPool, MaxRecords) }

\* The inputs of the runs whose termination is checked: the rows are alike,
\* what matters there is how many they are.
StdinRowsAlike ==
    { [headers |-> h, records |-> r] : h \in HeaderPool, r \in SeqsUpTo({ << <<TokA>> >> }, MaxRecords) }

\* CsvStringRecordCodec::bytes_encode keeps the fields in order; the encoded
\* record is represented by the record.
bytes_encode(record) == record

\* ------------------------------------------------------------ tokenization
\* str::to_lowercase on a run of ASCII bytes.
LowerByte(c) == IF c >= 65 /\ c <= 90 THEN c + 32 ELSE c
to_lowercase(token) == [i \in DOMAIN token |-> <<LowerByte(token[i][1]), token[i][2]>>]

\* The (attr, pos) pairs index_csv visits: enumerate().take(MAX_ATTRIBUTES)
\* over the fields, enumerate().take(MAX_POSITION) over a field's tokens.
Occurrences(document) ==
    UNION { { <<attr, pos>> : pos \in 0 .. (Min(Len(document[attr + 1]), MAX_POSITION) - 1) }
            : attr \in 0 .. (Min(Len(document), MAX_ATTRIBUTES) - 1) }

TokenAt(document, o) == to_lowercase(document[o[1] + 1][o[2] + 1])

\* (attr * MAX_POSITION + pos) as u32: below 2^32 for attr < MAX_ATTRIBUTES
\* and pos < MAX_POSITION, where the cast changes nothing.
PositionOf(o) == o[1] * MAX_POSITION + o[2]

\* word_positions after the two loops of index_csv over one record.
WordPositions(document) ==
    LET occ == Occurrences(document)
        words == { TokenAt(document, o) : o \in occ }
    IN  [ w \in words |-> { PositionOf(o) : o \in { x \in occ : TokenAt(document, x) = w } } ]

\* ---------------------------------------------------------------- proximity
\* milli::proximity::positions_proximity: 8 across attributes, otherwise the
\* index distance, one more when the second position precedes the first,
\* capped at 8.
ONE_ATTRIBUTE == 1000
MAX_DISTANCE == 8
index_proximity(lhs, rhs) ==
    IF lhs <= rhs THEN Min(rhs - lhs, MAX_DISTANCE) ELSE Min((lhs - rhs) + 1, MAX_DISTANCE)
positions_proximity(lhs, rhs) ==
    IF lhs \div ONE_ATTRIBUTE # rhs \div ONE_ATTRIBUTE THEN MAX_DISTANCE
    ELSE index_proximity(lhs % ONE_ATTRIBUTE, rhs % ONE_ATTRIBUTE)

\* Distances with the upper test off by one (prox <= 8).
DistancesUpToEight(word_positions, w1, w2) ==
    { prox \in { positions_proximity(ps1, ps2) : ps1 \in word_positions[w1], ps2 \in word_positions[w2] }
        : prox > 0 /\ prox <= 8 }

\* The distances bitmap of one ordered pair of words.
Distances(word_positions, w1, w2) ==
    { prox \in { positions_proximity(ps1, ps2) : ps1 \in word_positions[w1], ps2 \in word_positions[w2] }
        : prox > 0 /\ prox < 8 }

compute_words_pair_proximities(word_positions) ==
    LET pairs == { p \in (DOMAIN word_positions) \X (DOMAIN word_positions)
                     : Distances(word_positions, p[1], p[2]) # {} }
    IN  [ p \in pairs |-> Distances(word_positions, p[1], p[2]) ]

\* ------------------------------------------------------------ merge callbacks
\* A serialized RoaringBitmap and a serialized fst::Set are functions of the
\* set they hold, and are represented by that set.
\* A callback's outcome: the merged value, or the panic that ends the thread.
Merged(v) == [panic |-> "none", val |-> v]
Panicked(why, v) == [panic |-> why, val |-> v]

UnionAll(values) == UNION { values[i] : i \in DOMAIN values }

docs_merge(key, values) == Panicked("documents must not conflict", values[1])

\* merge with the union classes keeping the first value instead of the union.
merge_keep_first(key, values) ==
    IF key = WORDS_FST_KEY
    THEN Merged(UnionAll(values))
    ELSE IF FirstByte(key) \in {HEADERS_BYTE, WORD_DOCID_POSITIONS_BYTE}
    THEN IF \A i \in 1 .. (Len(values) - 1) : values[i] = values[i + 1]
         THEN Merged(values[1])
         ELSE Panicked("assertion failed", values[1])
    ELSE IF FirstByte(key) \in {DOCUMENTS_IDS_BYTE, WORD_DOCIDS_BYTE, WORDS_PROXIMITIES_BYTE}
    THEN Merged(values[1])
    ELSE Panicked("wut", values[1])

\* merge returning the last value it was given, for every key.
merge_last_wins(key, values) == Merged(values[Len(values)])

merge(key, values) ==
    IF key = WORDS_FST_KEY
    THEN Merged(UnionAll(values))
    ELSE IF FirstByte(key) \in {HEADERS_BYTE, WORD_DOCID_POSITIONS_BYTE}
    THEN IF \A i \in 1 .. (Len(values) - 1) : values[i] = values[i + 1]
         THEN Merged(values[1])
         ELSE Panicked("assertion failed", values[1])
    ELSE IF FirstByte(key) \in {DOCUMENTS_IDS_BYTE, WORD_DOCIDS_BYTE, WORDS_PROXIMITIES_BYTE}
    THEN Merged(UnionAll(values))
    ELSE Panicked("wut", values[1])

\* ------------------------------------------------- sorted tables and mergers
\* A table (a sorter chunk, an SSTable) is a function from keys to values.
\* The values the sources hold for key k, in the order of the sources.
ValuesOf(sources, k) ==
    LET idx == { i \in DOMAIN sources : k \in DOMAIN sources[i] }
    IN  [ j \in 1 .. Cardinality(idx) |->
            sources[CHOOSE i \in idx : Cardinality({ x \in idx : x <= i }) = j][k] ]

\* The callback a sorter or a merger was built with: f names it.
MergeFn(f, k, values) ==
    IF f = "docs_merge" THEN docs_merge(k, values) ELSE merge(k, values)

\* The callback runs only where several values meet under one key.
MergeValues(f, k, values) ==
    IF Len(values) = 1 THEN Merged(values[1]) ELSE MergeFn(f, k, values)

\* The k-way merge of a sequence of tables: [panic, tbl].
MergeSources(f, sources) ==
    CHOOSE merged \in
      { LET keys == UNION { DOMAIN src[i] : i \in DOMAIN src }
            res == [ k \in keys |-> MergeValues(f, k, ValuesOf(src, k)) ]
            bad == { k \in keys : res[k].panic # "none" }
        IN  [ panic |-> IF bad = {} THEN "none"
                        ELSE res[CHOOSE k \in bad : \A j \in bad : ~BytesLess(j, k)].panic,
              tbl |-> [ k \in keys |-> res[k].val ] ]
        : src \in {sources} } : TRUE

\* ------------------------------------------------------------------ Sorter
\* mem: the entries in memory, per key in insertion order; chunks: the chunks
\* spilled so far; panic: the panic of a merge callback, if any.
SorterNew == [mem |-> <<>>, chunks |-> <<>>, panic |-> "none"]

SorterInsert(sorter, key, val) ==
    [sorter EXCEPT !.mem =
        IF key \in DOMAIN @ THEN [@ EXCEPT ![key] = Append(@, val)]
        ELSE [ k \in DOMAIN @ \cup {key} |-> IF k = key THEN <<val>> ELSE @[k] ]]

\* Insertion of a table of entries under distinct keys.
SorterInsertAll(sorter, tbl) ==
    CHOOSE inserted \in
      { [sorter EXCEPT !.mem =
            [ k \in DOMAIN @ \cup DOMAIN t |->
                (IF k \in DOMAIN @ THEN @[k] ELSE <<>>)
                \o (IF k \in DOMAIN t THEN <<t[k]>> ELSE <<>>) ]]
        : t \in {tbl} } : TRUE

\* A spill: the entries in memory are sorted, runs of equal keys are merged by
\* the callback, and the result is written as one chunk.
SorterSpill(f, sorter) ==
    CHOOSE spilled \in
      { IF DOMAIN s.mem = {} THEN s
        ELSE LET res == [ k \in DOMAIN s.mem |-> MergeValues(f, k, s.mem[k]) ]
                 bad == { k \in DOMAIN s.mem : res[k].panic # "none" }
             IN  [ mem |-> <<>>,
                   chunks |-> Append(s.chunks, [ k \in DOMAIN s.mem |-> res[k].val ]),
                   panic |-> IF s.panic # "none" THEN s.panic
                             ELSE IF bad = {} THEN "none"
                             ELSE res[CHOOSE k \in bad : \A j \in bad : ~BytesLess(j, k)].panic ]
        : s \in {sorter} } : TRUE

\* into_iter / write_into: the last entries are spilled and the chunks merged.
SorterIntoIter(f, sorter) ==
    CHOOSE iter \in
      UNION { { [ panic |-> IF flushed.panic # "none" THEN flushed.panic ELSE merged.panic,
                  tbl |-> merged.tbl ]
                : merged \in {MergeSources(f, flushed.chunks)} }
              : flushed \in {SorterSpill(f, sorter)} } : TRUE

\* ---------------------------------------------------------------- ArcCache
\* ArcCache::insert(key, value, merge): on a hit the values are merged in
\* place; on a miss the entry is added and, when the cache is over capacity,
\* an entry of the policy's choice is evicted and returned. The outcomes are
\* the [cache, lrus] the policy may produce.
\* ArcInsert with a hit replacing the cached value instead of merging into it.
ArcInsertOverwriting(cache, capacity, word, ids) ==
    IF word \in DOMAIN cache
    THEN { [cache |-> [cache EXCEPT ![word] = ids], lrus |-> <<>>] }
    ELSE IF Cardinality(DOMAIN cache) < capacity
    THEN { [cache |-> [ k \in DOMAIN cache \cup {word} |-> IF k = word THEN ids ELSE cache[k] ],
            lrus |-> <<>>] }
    ELSE { [cache |-> [ k \in (DOMAIN cache \ {v}) \cup {word} |-> IF k = word THEN ids ELSE cache[k] ],
            lrus |-> << <<v, cache[v]>> >>] : v \in DOMAIN cache }

\* ArcInsert with the evicted entry dropped instead of returned.
ArcInsertLosingEvictions(cache, capacity, word, ids) ==
    IF word \in DOMAIN cache
    THEN { [cache |-> [cache EXCEPT ![word] = @ \cup ids], lrus |-> <<>>] }
    ELSE IF Cardinality(DOMAIN cache) < capacity
    THEN { [cache |-> [ k \in DOMAIN cache \cup {word} |-> IF k = word THEN ids ELSE cache[k] ],
            lrus |-> <<>>] }
    ELSE { [cache |-> [ k \in (DOMAIN cache \ {v}) \cup {word} |-> IF k = word THEN ids ELSE cache[k] ],
            lrus |-> <<>>] : v \in DOMAIN cache }

ArcInsert(cache, capacity, word, ids) ==
    IF word \in DOMAIN cache
    THEN { [cache |-> [cache EXCEPT ![word] = @ \cup ids], lrus |-> <<>>] }
    ELSE IF Cardinality(DOMAIN cache) < capacity
    THEN { [cache |-> [ k \in DOMAIN cache \cup {word} |-> IF k = word THEN ids ELSE cache[k] ],
            lrus |-> <<>>] }
    ELSE { [cache |-> [ k \in (DOMAIN cache \ {v}) \cup {word} |-> IF k = word THEN ids ELSE cache[k] ],
            lrus |-> << <<v, cache[v]>> >>] : v \in DOMAIN cache }

\* ------------------------------------------------------------------- Store
StoreNew ==
    [ word_docids |-> <<>>, documents_ids |-> {},
      sorter |-> SorterNew, documents_sorter |-> SorterNew ]

write_headers(st, headers) ==
    [st EXCEPT !.sorter = SorterInsert(@, HEADERS_KEY, bytes_encode(headers))]

\* iter: a sequence of <<word, ids>>; a key of invalid size is skipped.
RECURSIVE write_word_docids(_, _)
write_word_docids(sorter, iter) ==
    IF iter = <<>> THEN sorter
    ELSE LET key == WordDocidsKey(iter[1][1])
         IN  write_word_docids(
                 IF lmdb_key_valid_size(key) THEN SorterInsert(sorter, key, iter[1][2]) ELSE sorter,
                 Tail(iter))

\* The stores insert_word_docid may leave, one per eviction the cache may choose.
insert_word_docid(st, capacity, word, id) ==
    { [st EXCEPT !.word_docids = r.cache, !.sorter = write_word_docids(@, r.lrus)]
        : r \in ArcInsert(st.word_docids, capacity, word, {id}) }

\* The first loop of write_document, over the words of the record in any
\* order (the iteration order of the HashMap).
RECURSIVE InsertWordDocids(_, _, _, _)
InsertWordDocids(st, capacity, words, id) ==
    IF words = {} THEN {st}
    ELSE UNION { UNION { InsertWordDocids(t, capacity, words \ {w}, id)
                         : t \in insert_word_docid(st, capacity, w, id) }
                 : w \in words }

write_docid_word_positions(sorter, id, words_positions) ==
    CHOOSE inserted \in
      { SorterInsertAll(sorter,
            [ key \in { PositionsKey(id, w) : w \in words } |->
                words_positions[CHOOSE w \in words : PositionsKey(id, w) = key] ])
        : words \in { { w \in DOMAIN words_positions : lmdb_key_valid_size(PositionsKey(id, w)) } } }
      : TRUE

write_words_proximities(sorter, document_id, words_pair_proximities) ==
    LET keys == UNION { { ProximityKey(p[1], p[2], prox) : prox \in words_pair_proximities[p] }
                        : p \in DOMAIN words_pair_proximities }
    IN  SorterInsertAll(sorter,
            [ key \in { k \in keys : lmdb_key_valid_size(k) } |-> {document_id} ])

\* write_documents_ids skipping an empty set of ids.
write_documents_ids_unless_empty(sorter, ids) ==
    IF ids = {} THEN sorter ELSE SorterInsert(sorter, DOCUMENTS_IDS_KEY, ids)

write_documents_ids(sorter, ids) == SorterInsert(sorter, DOCUMENTS_IDS_KEY, ids)

\* write_document without the insertion into documents_ids.
write_document_without_id(st, capacity, document_id, words_positions, record) ==
    { [t EXCEPT !.documents_sorter = SorterInsert(@, to_be_bytes(document_id), bytes_encode(record)),
                !.sorter = write_docid_word_positions(@, document_id, words_positions)]
        : t \in InsertWordDocids(st, capacity, DOMAIN words_positions, document_id) }

write_document(st, capacity, document_id, words_positions, record) ==
    { [t EXCEPT !.documents_ids = @ \cup {document_id},
                !.documents_sorter = SorterInsert(@, to_be_bytes(document_id), bytes_encode(record)),
                !.sorter = write_docid_word_positions(@, document_id, words_positions)]
        : t \in InsertWordDocids(st, capacity, DOMAIN words_positions, document_id) }

\* The entries of the cache, in some order.
RECURSIVE CacheEntries(_)
CacheEntries(cache) ==
    IF DOMAIN cache = {} THEN <<>>
    ELSE LET w == CHOOSE x \in DOMAIN cache : TRUE
         IN  << <<w, cache[w]>> >> \o CacheEntries([ k \in DOMAIN cache \ {w} |-> cache[k] ])

\* FstOf reading the keys of the wrong prefix.
FstOfPositionalKeys(tbl) ==
    { DropBytes(k, 1) : k \in { x \in DOMAIN tbl : FirstByte(x) = WORD_DOCID_POSITIONS_BYTE } }

\* The words-fst of a sorted stream: the body of every word-docids key.
FstOf(tbl) == { DropBytes(k, 1) : k \in { x \in DOMAIN tbl : FirstByte(x) = WORD_DOCIDS_BYTE } }

\* The keys of a table in the order a sorter or a merger yields them.
\* (The set and its least key are bound by set constructors, for the same
\* reason as in BytesLess.)
RECURSIVE SortedKeys(_)
SortedKeys(keys) ==
    CHOOSE sorted \in UNION {
        IF ks = {} THEN { <<>> }
        ELSE { <<least>> \o SortedKeys(ks \ {least})
                 : least \in { k \in ks : \A j \in ks : ~BytesLess(j, k) } }
        : ks \in {keys} } : TRUE

\* The words finish inserts into the FST builder while it streams the keys.
FstInserts(order) ==
    LET keys == SelectSeq(order, LAMBDA k : FirstByte(k) = WORD_DOCIDS_BYTE)
    IN  [ i \in 1 .. Len(keys) |-> DropBytes(keys[i], 1) ]

\* finish: [panic, postings, docs], the two tables a worker returns, with the
\* keys in the order they were inserted into the postings Writer (written)
\* and the words in the order they were inserted into the FST builder.
finish(st) ==
    LET drained == write_word_docids(st.sorter, CacheEntries(st.word_docids))
        last == write_documents_ids(drained, st.documents_ids)
    IN  CHOOSE result \in
          { [ panic |-> IF iter.panic # "none" THEN iter.panic ELSE docs.panic,
              postings |-> [ k \in DOMAIN iter.tbl \cup {WORDS_FST_KEY} |->
                               IF k = WORDS_FST_KEY THEN FstOf(iter.tbl) ELSE iter.tbl[k] ],
              docs |-> docs.tbl,
              written |-> SortedKeys(DOMAIN iter.tbl) \o <<WORDS_FST_KEY>>,
              fst_inserts |-> FstInserts(SortedKeys(DOMAIN iter.tbl)) ]
            : iter \in {SorterIntoIter("merge", last)},
              docs \in {SorterIntoIter("docs_merge", st.documents_sorter)} } : TRUE

\* -------------------------------------------------------------------- LMDB
EmptyDb ==
    [ main |-> <<>>, word_docids |-> <<>>, docid_word_positions |-> <<>>,
      word_pair_proximity_docids |-> <<>>, documents |-> <<>> ]

Put(f, k, v) == [ x \in DOMAIN f \cup {k} |-> IF x = k THEN v ELSE f[x] ]

lmdb_writer(txn, key, val) ==
    IF key = WORDS_FST_KEY THEN [txn EXCEPT !.main = Put(@, "words-fst", val)]
    ELSE IF key = HEADERS_KEY THEN [txn EXCEPT !.main = Put(@, "headers", val)]
    ELSE IF key = DOCUMENTS_IDS_KEY THEN [txn EXCEPT !.main = Put(@, "documents-ids", val)]
    ELSE IF FirstByte(key) = WORD_DOCIDS_BYTE
    THEN [txn EXCEPT !.word_docids = Put(@, DropBytes(key, 1), val)]
    ELSE IF FirstByte(key) = WORD_DOCID_POSITIONS_BYTE
    THEN [txn EXCEPT !.docid_word_positions = Put(@, DropBytes(key, 1), val)]
    ELSE IF FirstByte(key) = WORDS_PROXIMITIES_BYTE
    THEN [txn EXCEPT !.word_pair_proximity_docids = Put(@, DropBytes(key, 1), val)]
    ELSE txn

\* The closure main passes for the documents: documents[BEU32(id)] = v.
documents_writer(txn, key, val) ==
    [txn EXCEPT !.documents = Put(@, from_be_bytes(key), val)]

\* The transaction after the first n entries of the stream went through f.
\* The closure merge_into_lmdb was called with: f names it.
WriteFn(f, txn, key, val) ==
    IF f = "documents" THEN documents_writer(txn, key, val) ELSE lmdb_writer(txn, key, val)

RECURSIVE PutPrefix(_, _, _, _, _)
PutPrefix(f, txn, tbl, order, n) ==
    IF n = 0 THEN txn
    ELSE PutPrefix(f, WriteFn(f, txn, order[1], tbl[order[1]]), tbl, Tail(order), n - 1)

\* ------------------------------------------------------------------- state
VARIABLES
    input,          \* the CSV: [headers, records]
    num_threads,    \* rayon::current_num_threads()
    arc_cache_size, \* --arc-cache-size
    store,          \* per worker: its Store
    wpc,            \* per worker: "headers", "records", "done", "failed", "panicked"
    document_id,    \* per worker: the index of the next record it reads
    readers,        \* per worker: what index_csv returned
    mpc,            \* main: "indexing", "postings", "documents", "commit",
                    \*       "done", "failed", "panicked"
    wtxn,           \* the content the write transaction would commit
    db,             \* the committed content of the LMDB environment
    commits,        \* the number of wtxn.commit() executed
    panic,          \* the message of the first panic, "none" without one
    prev,           \* the worker count and committed content of an earlier run
    producer,       \* the thread csv_readers spawns to copy the standard input:
                    \* [pc, read, cur, sent], pc = "none" when a file is read
    pipes,          \* per worker: the blocks written into its pipe and not read yet
    merging,        \* a key and the values under it that a merger folds
    scan,           \* the sizes of a record and the occurrence its tokenization visits
    counting        \* the record counters of index_csv at full width, and the ids converted

\* The variables of the runs of merge and of the tokenization alone.
units == << merging, scan, counting >>

vars == << input, num_threads, arc_cache_size, store, wpc, document_id, readers,
           mpc, wtxn, db, commits, panic, prev, producer, pipes, units >>

Workers == 0 .. (num_threads - 1)

NoReaders ==
    [panic |-> "none", postings |-> <<>>, docs |-> <<>>, written |-> <<>>, fst_inserts |-> <<>>]
NoPrev == [n |-> 0, db |-> EmptyDb]
NoProducer == [pc |-> "none", read |-> 0, cur |-> 0, sent |-> <<>>]
NoMerging == [key |-> <<>>, orig |-> <<>>, values |-> <<>>, rounds |-> 0]
NoScan == [columns |-> 0, tokens |-> 0, inserted |-> {}]
NoCounting == [total |-> [hi |-> 0, lo |-> 0], index |-> <<>>, converted |-> <<>>]

\* Everything but the source of the rows, at the start of a run.
InitRun(inputs) ==
    /\ input \in inputs
    /\ num_threads \in 1 .. MaxThreads
    /\ arc_cache_size \in 1 .. MaxCache
    /\ store = [ w \in Workers |-> StoreNew ]
    /\ wpc = [ w \in Workers |-> "headers" ]
    /\ document_id = [ w \in Workers |-> 0 ]
    /\ readers = [ w \in Workers |-> NoReaders ]
    /\ mpc = "indexing"
    /\ wtxn = EmptyDb
    /\ db = EmptyDb
    /\ commits = 0
    /\ panic = "none"
    /\ prev = NoPrev
    /\ pipes = [ w \in Workers |-> <<>> ]
    /\ merging = NoMerging
    /\ scan = NoScan
    /\ counting = NoCounting

\* The run reads a file: every worker opens it for itself.
Init ==
    /\ InitRun(Inputs)
    /\ producer = NoProducer

\* The rows of the input in the order of the bytes.
Stream == <<input.headers>> \o input.records

\* The reader of a worker, over the file or over the worker's pipe: whether
\* the row of this index (from 1) can be read, the row, and whether the
\* reader is at the end of its input. A pipe is at its end when it is empty
\* and the producer has dropped the writers.
ReadsStdin == producer.pc # "none"
WritersDropped == producer.pc \in {"closed", "failed"}
RowAvailable(w, index) == IF ReadsStdin THEN pipes[w] # <<>> ELSE index <= Len(Stream)
Row(w, index) == IF ReadsStdin THEN Head(pipes[w]) ELSE Stream[index]
EndOfInput(w, index) ==
    IF ReadsStdin THEN pipes[w] = <<>> /\ WritersDropped ELSE index > Len(Stream)
Consume(w) == IF ReadsStdin THEN [pipes EXCEPT ![w] = Tail(@)] ELSE pipes

\* ----------------------------------------------------------------- workers
\* index_csv up to its loop: the headers are read and inserted. The headers
\* of an input that ends before its first row are the empty record.
WriteHeaders(w) ==
    /\ wpc[w] = "headers"
    /\ IF RowAvailable(w, 1)
       THEN /\ store' = [store EXCEPT ![w] = write_headers(@, Row(w, 1))]
            /\ pipes' = Consume(w)
       ELSE /\ EndOfInput(w, 1)
            /\ store' = [store EXCEPT ![w] = write_headers(@, <<>>)]
            /\ pipes' = pipes
    /\ wpc' = [wpc EXCEPT ![w] = "records"]
    /\ UNCHANGED << input, num_threads, arc_cache_size, document_id, readers,
                    mpc, wtxn, db, commits, panic, prev, producer, units >>

\* The sorter spills when its memory bound is reached, which the options and
\* the sizes decide; the model lets it spill, or not, after each indexed
\* record, which yields every grouping of a key's values across records.
SpillPoints == {"none", "end"}

\* The stores one iteration of the loop may leave for an assigned record.
IndexOutcomes(st, capacity, id, document, spill) ==
    UNION { UNION { { [t EXCEPT !.sorter = IF spill = "end" THEN SorterSpill("merge", @) ELSE @]
                      : t \in write_document(st1, capacity, id, word_positions, document) }
                    : st1 \in { [st EXCEPT !.sorter =
                                    write_words_proximities(@, id,
                                        compute_words_pair_proximities(word_positions))] } }
            : word_positions \in {WordPositions(document)} }

\* Assigned with a comparison in place of the equality.
AssignedUpTo(index, n, thread_index) == index % n <= thread_index

\* Whether the worker indexes the record at this index.
Assigned(index, n, thread_index) == index % n = thread_index

\* One iteration of the loop of index_csv: the record is read, indexed if it
\* is this worker's, and the index moves on. A panic of the merge callback
\* in a spill ends the thread.
IndexRecord(w) ==
    /\ wpc[w] = "records"
    /\ RowAvailable(w, document_id[w] + 2)
    /\ IF Assigned(document_id[w], num_threads, w)
       THEN \E spill \in SpillPoints :
              \E st \in IndexOutcomes(store[w], arc_cache_size, document_id[w],
                                      Row(w, document_id[w] + 2), spill) :
                 IF st.sorter.panic = "none"
                 THEN /\ store' = [store EXCEPT ![w] = st]
                      /\ UNCHANGED << wpc, panic >>
                 ELSE /\ store' = [store EXCEPT ![w] = StoreNew]
                      /\ wpc' = [wpc EXCEPT ![w] = "panicked"]
                      /\ panic' = IF panic = "none" THEN st.sorter.panic ELSE panic
       ELSE UNCHANGED << store, wpc, panic >>
    /\ document_id' = [document_id EXCEPT ![w] = @ + 1]
    /\ pipes' = Consume(w)
    /\ UNCHANGED << input, num_threads, arc_cache_size, readers,
                    mpc, wtxn, db, commits, prev, producer, units >>

\* read_record returned false: finish consumes the Store.
Finish(w) ==
    /\ wpc[w] = "records"
    /\ EndOfInput(w, document_id[w] + 2)
    /\ LET r == finish(store[w])
       IN  IF r.panic = "none"
           THEN /\ readers' = [readers EXCEPT ![w] = r]
                /\ wpc' = [wpc EXCEPT ![w] = "done"]
                /\ panic' = panic
           ELSE /\ readers' = readers
                /\ wpc' = [wpc EXCEPT ![w] = "panicked"]
                /\ panic' = IF panic = "none" THEN r.panic ELSE panic
    /\ store' = [store EXCEPT ![w] = StoreNew]
    /\ UNCHANGED << input, num_threads, arc_cache_size, document_id,
                    mpc, wtxn, db, commits, prev, producer, pipes, units >>

\* rdr.headers()?, read_record()? or an insert returned an error: index_csv
\* returns it and the Store and the reader are dropped.
WorkerError(w) ==
    /\ wpc[w] \in {"headers", "records"}
    /\ wpc' = [wpc EXCEPT ![w] = "failed"]
    /\ store' = [store EXCEPT ![w] = StoreNew]
    /\ document_id' = [document_id EXCEPT ![w] = 0]
    /\ pipes' = [pipes EXCEPT ![w] = <<>>]
    /\ UNCHANGED << input, num_threads, arc_cache_size, readers,
                    mpc, wtxn, db, commits, panic, prev, producer, units >>

\* -------------------------------------------------------------------- main
\* collect::<Result<Vec<_>, _>>()? and env.write_txn()?.
\* Collect with the workers' errors dropped instead of returned.
CollectIgnoringErrors ==
    /\ mpc = "indexing"
    /\ \A w \in Workers : wpc[w] \in {"done", "failed", "panicked"}
    /\ \E txn_ok \in BOOLEAN :
         mpc' = IF \E w \in Workers : wpc[w] = "panicked" THEN "panicked"
                ELSE IF txn_ok THEN "postings" ELSE "failed"
    /\ UNCHANGED << input, num_threads, arc_cache_size, store, wpc, document_id,
                    readers, wtxn, db, commits, panic, prev, producer, pipes, units >>

\* Collect going on as soon as one worker has returned.
CollectFirstReturn ==
    /\ mpc = "indexing"
    /\ \E w \in Workers : wpc[w] \in {"done", "failed", "panicked"}
    /\ \E txn_ok \in BOOLEAN :
         mpc' = IF \E w \in Workers : wpc[w] = "panicked" THEN "panicked"
                ELSE IF \E w \in Workers : wpc[w] = "failed" THEN "failed"
                ELSE IF txn_ok THEN "postings" ELSE "failed"
    /\ UNCHANGED << input, num_threads, arc_cache_size, store, wpc, document_id,
                    readers, wtxn, db, commits, panic, prev, producer, pipes, units >>

Collect ==
    /\ mpc = "indexing"
    /\ \A w \in Workers : wpc[w] \in {"done", "failed", "panicked"}
    /\ \E txn_ok \in BOOLEAN :
         mpc' = IF \E w \in Workers : wpc[w] = "panicked" THEN "panicked"
                ELSE IF \E w \in Workers : wpc[w] = "failed" THEN "failed"
                ELSE IF txn_ok THEN "postings" ELSE "failed"
    /\ UNCHANGED << input, num_threads, arc_cache_size, store, wpc, document_id,
                    readers, wtxn, db, commits, panic, prev, producer, pipes, units >>

\* merge_into_lmdb: the sources are merged by merge and every entry goes
\* through f; a put that fails ends the run with the earlier puts in the
\* transaction.
MergeIntoLmdb(f, sources, next) ==
    LET merged == MergeSources("merge", sources)
        order == SortedKeys(DOMAIN merged.tbl)
    IN  IF merged.panic # "none"
        THEN /\ mpc' = "panicked"
             /\ panic' = merged.panic
             /\ wtxn' = wtxn
        ELSE \E n \in 0 .. Len(order) :
               /\ wtxn' = PutPrefix(f, wtxn, merged.tbl, order, n)
               /\ mpc' = IF n = Len(order) THEN next ELSE "failed"
               /\ panic' = panic

MergePostings ==
    /\ mpc = "postings"
    /\ MergeIntoLmdb("postings", [ i \in 1 .. num_threads |-> readers[i - 1].postings ], "documents")
    /\ UNCHANGED << input, num_threads, arc_cache_size, store, wpc, document_id,
                    readers, db, commits, prev, producer, pipes, units >>

MergeDocuments ==
    /\ mpc = "documents"
    /\ MergeIntoLmdb("documents", [ i \in 1 .. num_threads |-> readers[i - 1].docs ], "commit")
    /\ UNCHANGED << input, num_threads, arc_cache_size, store, wpc, document_id,
                    readers, db, commits, prev, producer, pipes, units >>

\* number_of_documents()? and wtxn.commit()?.
Commit ==
    /\ mpc = "commit"
    /\ \/ /\ db' = wtxn
          /\ commits' = commits + 1
          /\ mpc' = "done"
       \/ /\ mpc' = "failed"
          /\ UNCHANGED << db, commits >>
    /\ UNCHANGED << input, num_threads, arc_cache_size, store, wpc, document_id,
                    readers, wtxn, panic, prev, producer, pipes, units >>

Next ==
    \/ \E w \in Workers : WriteHeaders(w)
    \/ \E w \in Workers : IndexRecord(w)
    \/ \E w \in Workers : Finish(w)
    \/ \E w \in Workers : WorkerError(w)
    \/ Collect
    \/ MergePostings
    \/ MergeDocuments
    \/ Commit

Spec == Init /\ [][Next]_vars

\* ---------------------------------------------------------- standard input
\* Without a file, csv_readers makes one pipe per worker and spawns a thread
\* that copies the standard input, block by block, into every pipe. A block
\* of the model is one row of the input; the pipes hold PipeCapacity blocks.
InitStdin ==
    /\ InitRun(StdinInputs)
    /\ producer = [pc |-> "read", read |-> 0, cur |-> 0,
                   sent |-> [ w \in Workers |-> <<>> ]]

InitStdinRowsAlike ==
    /\ InitRun(StdinRowsAlike)
    /\ producer = [pc |-> "read", read |-> 0, cur |-> 0,
                   sent |-> [ w \in Workers |-> <<>> ]]

\* The process lives as long as main has not returned.
Running == mpc \in {"indexing", "postings", "documents", "commit"}

\* ProducerRead returning at the end of the input with the writers kept alive.
ProducerReadKeepingWriters ==
    /\ Running
    /\ producer.pc = "read"
    /\ producer' = IF producer.read < Len(Stream)
                   THEN [producer EXCEPT !.pc = "write", !.read = @ + 1, !.cur = 0]
                   ELSE [producer EXCEPT !.pc = "returned"]
    /\ UNCHANGED << input, num_threads, arc_cache_size, store, wpc, document_id, readers,
                    mpc, wtxn, db, commits, panic, prev, pipes, units >>

\* stdin.read(&mut buffer): a block is read, or 0 at the end of the input,
\* where the thread returns and drops the writers.
ProducerRead ==
    /\ Running
    /\ producer.pc = "read"
    /\ producer' = IF producer.read < Len(Stream)
                   THEN [producer EXCEPT !.pc = "write", !.read = @ + 1, !.cur = 0]
                   ELSE [producer EXCEPT !.pc = "closed"]
    /\ UNCHANGED << input, num_threads, arc_cache_size, store, wpc, document_id, readers,
                    mpc, wtxn, db, commits, panic, prev, pipes, units >>

\* stdin.read(&mut buffer)? returned an error: the closure returns it, the
\* writers are dropped, and nothing joins the thread.
ProducerReadError ==
    /\ Running
    /\ producer.pc = "read"
    /\ producer' = [producer EXCEPT !.pc = "failed"]
    /\ UNCHANGED << input, num_threads, arc_cache_size, store, wpc, document_id, readers,
                    mpc, wtxn, db, commits, panic, prev, pipes, units >>

\* ProducerWrite skipping a full pipe instead of waiting for room.
ProducerWriteSkippingFull ==
    /\ Running
    /\ producer.pc = "write"
    /\ LET w == producer.cur
           block == Stream[producer.read]
           next == IF w + 1 = num_threads THEN "read" ELSE "write"
       IN  IF wpc[w] \in {"done", "failed", "panicked"}
           THEN /\ producer' = [producer EXCEPT !.pc = "failed"]
                /\ pipes' = pipes
           ELSE IF Len(pipes[w]) < PipeCapacity
           THEN /\ pipes' = [pipes EXCEPT ![w] = Append(@, block)]
                /\ producer' = [producer EXCEPT !.sent[w] = Append(@, block),
                                                !.cur = w + 1, !.pc = next]
           ELSE /\ pipes' = pipes
                /\ producer' = [producer EXCEPT !.cur = w + 1, !.pc = next]
    /\ UNCHANGED << input, num_threads, arc_cache_size, store, wpc, document_id, readers,
                    mpc, wtxn, db, commits, panic, prev, units >>

\* w.write_all(block)? on the writer at cur, in the order of the writers: it
\* waits while the pipe is full, and fails when the reader was dropped.
ProducerWrite ==
    /\ Running
    /\ producer.pc = "write"
    /\ LET w == producer.cur
           block == Stream[producer.read]
           next == IF w + 1 = num_threads THEN "read" ELSE "write"
       IN  IF wpc[w] \in {"done", "failed", "panicked"}
           THEN /\ producer' = [producer EXCEPT !.pc = "failed"]
                /\ pipes' = pipes
           ELSE /\ Len(pipes[w]) < PipeCapacity
                /\ pipes' = [pipes EXCEPT ![w] = Append(@, block)]
                /\ producer' = [producer EXCEPT !.sent[w] = Append(@, block),
                                                !.cur = w + 1, !.pc = next]
    /\ UNCHANGED << input, num_threads, arc_cache_size, store, wpc, document_id, readers,
                    mpc, wtxn, db, commits, panic, prev, units >>

NextStdin ==
    \/ ProducerRead
    \/ ProducerReadError
    \/ ProducerWrite
    \/ Next

SpecStdin == InitStdin /\ [][NextStdin]_vars

\* A run without an error of the environment: no read, write, storage or
\* transaction error, and so no failed thread.
NoFailure ==
    /\ mpc \notin {"failed", "panicked"}
    /\ producer.pc # "failed"
    /\ \A w \in Workers : wpc[w] \notin {"failed", "panicked"}

ProducerStep == (ProducerRead \/ ProducerWrite) /\ NoFailure'
WorkerStep(w) == (WriteHeaders(w) \/ IndexRecord(w) \/ Finish(w)) /\ NoFailure'
MainStep == (Collect \/ MergePostings \/ MergeDocuments \/ Commit) /\ NoFailure'

NextStdinFair ==
    \/ ProducerStep
    \/ \E w \in Workers : WorkerStep(w)
    \/ MainStep

\* The threads are scheduled by the operating system: a thread that can take
\* a step is not held back forever.
SpecStdinFair ==
    /\ InitStdinRowsAlike
    /\ [][NextStdinFair]_vars
    /\ WF_vars(ProducerStep)
    /\ \A w \in 0 .. (MaxThreads - 1) : WF_vars(w \in Workers /\ WorkerStep(w))
    /\ WF_vars(MainStep)

\* ---------------------------------------------------------------- two runs
\* The binary is run a second time on the same input and an empty database;
\* prev keeps the worker count and the committed content of the first run.
Restart(n) ==
    /\ mpc = "done"
    /\ prev = NoPrev
    /\ prev' = [n |-> num_threads, db |-> db]
    /\ num_threads' = n
    /\ arc_cache_size' \in 1 .. MaxCache
    /\ store' = [ w \in 0 .. (n - 1) |-> StoreNew ]
    /\ wpc' = [ w \in 0 .. (n - 1) |-> "headers" ]
    /\ document_id' = [ w \in 0 .. (n - 1) |-> 0 ]
    /\ readers' = [ w \in 0 .. (n - 1) |-> NoReaders ]
    /\ mpc' = "indexing"
    /\ wtxn' = EmptyDb
    /\ db' = EmptyDb
    /\ commits' = 0
    /\ pipes' = [ w \in 0 .. (n - 1) |-> <<>> ]
    /\ UNCHANGED << input, panic, producer, units >>

\* The second run has the worker count of the first.
RerunSame == Restart(num_threads)

\* The first run had one worker, the second has several.
RerunParallel ==
    /\ num_threads = 1
    /\ \E k \in 2 .. MaxThreads : Restart(k)

NextTwoRuns == Next \/ RerunSame

SpecTwoRuns == Init /\ [][NextTwoRuns]_vars

NextParallel == Next \/ RerunParallel

SpecParallel == Init /\ [][NextParallel]_vars

\* ------------------------------------------------------------------ claims
\* The words of the inputs, as indexed.
Words == { to_lowercase(t) : t \in {TokA, TokB, TokUpperA, TokLong, TokHuge} }
RecordIds == 0 .. (Len(input.records) - 1)
Record(d) == input.records[d + 1]
Committed == mpc = "done"

\* C1: a run with several workers commits, key by key over all sub-stores,
\* the state a run with one worker committed on the same input.
ParallelismInvariance ==
    (Committed /\ prev.n = 1 /\ num_threads > 1) => db = prev.db

ParallelismInvarianceWitness ==
    /\ Committed /\ prev.n = 1 /\ num_threads > 1
    /\ Len(input.records) >= 2
    /\ \E w \in DOMAIN db.word_docids : Cardinality(db.word_docids[w]) >= 2

\* C2: two runs on the same input with the same number of workers commit the
\* same state, whatever the interleaving, the order of the words of a record,
\* the evictions of the cache and the spills of the sorter.
Determinism ==
    (Committed /\ prev # NoPrev /\ prev.n = num_threads) => db = prev.db

DeterminismWitness ==
    /\ Committed /\ prev # NoPrev /\ prev.n = num_threads
    /\ Len(input.records) >= 2
    /\ \E w \in DOMAIN db.word_docids : Cardinality(db.word_docids[w]) >= 2

\* C3: the transaction is committed at most once, only after every worker
\* returned its tables and both merges wrote all their entries; a run that
\* failed or panicked has committed nothing and left the store as it was.
NoPartialCommit ==
    /\ commits <= 1
    /\ commits = 0 => db = EmptyDb
    /\ mpc \in {"failed", "panicked"} => (commits = 0 /\ db = EmptyDb)
    /\ commits = 1 =>
         /\ mpc = "done"
         /\ \A w \in Workers : wpc[w] = "done"
         /\ db = wtxn
         /\ \A w \in Workers :
              /\ \A k \in DOMAIN readers[w].docs : from_be_bytes(k) \in DOMAIN db.documents
              /\ \A k \in DOMAIN readers[w].postings :
                   \/ k \in {WORDS_FST_KEY, HEADERS_KEY, DOCUMENTS_IDS_KEY}
                   \/ DropBytes(k, 1) \in DOMAIN db.word_docids
                   \/ DropBytes(k, 1) \in DOMAIN db.docid_word_positions
                   \/ DropBytes(k, 1) \in DOMAIN db.word_pair_proximity_docids
         /\ DOMAIN db.main = {"words-fst", "headers", "documents-ids"}

\* A put failed in the documents merge, after the postings were written.
NoPartialCommitWitness ==
    /\ mpc = "failed"
    /\ \A w \in Workers : wpc[w] = "done"
    /\ DOMAIN wtxn.word_docids # {}
    /\ DOMAIN wtxn.documents # {}
    /\ db = EmptyDb

\* C4: after commit, docid_word_positions[d || w] exists and is non-empty
\* exactly when d is in word_docids[w], for every word length.
PositionalPostingsConsistency ==
    Committed =>
      \A d \in RecordIds : \A w \in Words :
        LET k == DropBytes(PositionsKey(d, w), 1)
        IN  (k \in DOMAIN db.docid_word_positions /\ db.docid_word_positions[k] # {})
            <=> (w \in DOMAIN db.word_docids /\ d \in db.word_docids[w])

\* C5: after commit, main["documents-ids"] is the set of the keys of the
\* documents sub-store, also when some workers indexed no record.
DocumentsIdsConsistency ==
    Committed =>
      /\ "documents-ids" \in DOMAIN db.main
      /\ db.main["documents-ids"] = DOMAIN db.documents

DocumentsIdsConsistencyWitness ==
    /\ Committed
    /\ num_threads > Len(input.records)
    /\ Len(input.records) >= 1
    /\ db.main["documents-ids"] # {}

\* C6: after commit, the words of main["words-fst"] are the keys of the
\* word_docids sub-store.
FstCoverage ==
    Committed =>
      /\ "words-fst" \in DOMAIN db.main
      /\ db.main["words-fst"] = DOMAIN db.word_docids

\* Two workers contributed FSTs with different words.
FstCoverageWitness ==
    /\ Committed
    /\ num_threads >= 2
    /\ \E w1 \in Workers : \E w2 \in Workers :
         /\ readers[w1].postings[WORDS_FST_KEY] \ readers[w2].postings[WORDS_FST_KEY] # {}
         /\ readers[w2].postings[WORDS_FST_KEY] \ readers[w1].postings[WORDS_FST_KEY] # {}

\* What a worker has emitted: only records of its residue class, record i
\* under id i, all of them up to its index; what main commits from it.
ShardingState ==
    /\ \A w \in Workers :
         /\ \A id \in store[w].documents_ids :
              /\ id % num_threads = w
              /\ id < document_id[w]
              /\ to_be_bytes(id) \in DOMAIN store[w].documents_sorter.mem
              /\ store[w].documents_sorter.mem[to_be_bytes(id)] = << bytes_encode(Record(id)) >>
         /\ wpc[w] = "records" =>
              store[w].documents_ids = { i \in 0 .. (document_id[w] - 1) : i % num_threads = w }
         /\ wpc[w] = "done" =>
              { from_be_bytes(k) : k \in DOMAIN readers[w].docs } = { i \in RecordIds : i % num_threads = w }
    /\ \A w1 \in Workers : \A w2 \in Workers \ {w1} :
         /\ store[w1].documents_ids \cap store[w2].documents_ids = {}
         /\ DOMAIN readers[w1].docs \cap DOMAIN readers[w2].docs = {}
    /\ Committed =>
         /\ DOMAIN db.documents = RecordIds
         /\ \A i \in RecordIds : db.documents[i] = bytes_encode(Record(i))

EmitsIncreasingIds ==
    \A w \in Workers :
      \A new \in store'[w].documents_ids \ store[w].documents_ids :
        \A old \in store[w].documents_ids : old < new

\* C7: record i is indexed by worker i mod N alone and gets document id i; no
\* two workers emit the same id; a worker emits increasing ids; after commit
\* documents[i] holds record i for every i below the record count.
Sharding == []ShardingState /\ [][EmitsIncreasingIds]_vars

\* Two workers, each of which indexed a record, and the commit.
ShardingWitness ==
    /\ Committed
    /\ num_threads = 2
    /\ \A w \in Workers : DOMAIN readers[w].docs # {}

\* The number of values a sorter holds under a key, and the keys it holds.
SorterCount(sorter, k) ==
    (IF k \in DOMAIN sorter.mem THEN Len(sorter.mem[k]) ELSE 0)
    + Cardinality({ i \in DOMAIN sorter.chunks : k \in DOMAIN sorter.chunks[i] })

SorterKeys(sorter) ==
    DOMAIN sorter.mem \cup UNION { DOMAIN sorter.chunks[i] : i \in DOMAIN sorter.chunks }

\* C8: the equality assertion of merge never fails: a worker's sorter holds
\* one value under the headers key and under each positional key, no
\* positional key is in the tables of two workers, the headers of all
\* workers are equal, and main["headers"] is the header row of the input.
MergeAssertionHolds ==
    /\ panic # "assertion failed"
    /\ \A w \in Workers :
         /\ store[w].sorter.panic = "none"
         /\ wpc[w] = "records" => SorterCount(store[w].sorter, HEADERS_KEY) = 1
         /\ \A k \in SorterKeys(store[w].sorter) :
              FirstByte(k) \in {HEADERS_BYTE, WORD_DOCID_POSITIONS_BYTE}
                => SorterCount(store[w].sorter, k) = 1
    /\ \A w1 \in Workers : \A w2 \in Workers \ {w1} :
         \A k \in DOMAIN readers[w1].postings \cap DOMAIN readers[w2].postings :
           /\ FirstByte(k) # WORD_DOCID_POSITIONS_BYTE
           /\ FirstByte(k) = HEADERS_BYTE => readers[w1].postings[k] = readers[w2].postings[k]
    /\ Committed => db.main["headers"] = bytes_encode(input.headers)

\* The headers of two workers met in the global merge, and each worker
\* brought positional postings.
MergeAssertionHoldsWitness ==
    /\ Committed
    /\ num_threads >= 2
    /\ \A w \in Workers :
         \E k \in DOMAIN readers[w].postings : FirstByte(k) = WORD_DOCID_POSITIONS_BYTE

\* C9: no key longer than 511 bytes enters a sorter, a table or a sub-store,
\* and dropping a key of a record loses nothing else of the record: its id,
\* its document and every key of it that has a valid size are committed.
KeySizeClamp ==
    /\ \A w \in Workers :
         /\ \A k \in SorterKeys(store[w].sorter) : ByteLen(k) <= LMDB_MAX_KEY_LENGTH
         /\ \A k \in SorterKeys(store[w].documents_sorter) : ByteLen(k) <= LMDB_MAX_KEY_LENGTH
         /\ \A k \in DOMAIN readers[w].postings : ByteLen(k) <= LMDB_MAX_KEY_LENGTH
    /\ \A k \in DOMAIN wtxn.word_docids \cup DOMAIN wtxn.docid_word_positions
                  \cup DOMAIN wtxn.word_pair_proximity_docids :
         ByteLen(k) <= LMDB_MAX_KEY_LENGTH
    /\ Committed =>
         \A d \in RecordIds :
           LET wp == WordPositions(Record(d))
           IN  /\ d \in db.main["documents-ids"]
               /\ d \in DOMAIN db.documents
               /\ \A w \in DOMAIN wp :
                    /\ ByteLen(WordDocidsKey(w)) <= LMDB_MAX_KEY_LENGTH
                         => (w \in DOMAIN db.word_docids /\ d \in db.word_docids[w])
                    /\ ByteLen(PositionsKey(d, w)) <= LMDB_MAX_KEY_LENGTH
                         => /\ DropBytes(PositionsKey(d, w), 1) \in DOMAIN db.docid_word_positions
                            /\ db.docid_word_positions[DropBytes(PositionsKey(d, w), 1)] = wp[w]

\* A record with a 511-byte word and a short word was committed.
KeySizeClampWitness ==
    /\ Committed
    /\ \E d \in RecordIds :
         /\ to_lowercase(TokHuge) \in DOMAIN WordPositions(Record(d))
         /\ ~(to_lowercase(TokHuge) \in DOMAIN db.word_docids)
         /\ d \in db.word_docids[TokA]

\* Record d has a position of w1 and a position of w2 at proximity k; d is in
\* the proximity postings of (w1, w2, k).
HasProximity(d, w1, w2, k) ==
    LET wp == WordPositions(Record(d))
    IN  /\ w1 \in DOMAIN wp
        /\ w2 \in DOMAIN wp
        /\ \E p1 \in wp[w1] : \E p2 \in wp[w2] : positions_proximity(p1, p2) = k

InProximityPostings(d, w1, w2, k) ==
    LET key == DropBytes(ProximityKey(w1, w2, k), 1)
    IN  /\ key \in DOMAIN db.word_pair_proximity_docids
        /\ d \in db.word_pair_proximity_docids[key]

\* C10 as stated: d is in word_pair_proximity_docids[w1 || 0 || w2 || k]
\* exactly when record d has a position of w1 and a position of w2 at
\* proximity k, 1 <= k <= 7.
ProximityPostingsExact ==
    Committed =>
      \A d \in RecordIds : \A w1 \in Words : \A w2 \in Words : \A k \in 0 .. MAX_DISTANCE :
        InProximityPostings(d, w1, w2, k)
          <=> (HasProximity(d, w1, w2, k) /\ 1 <= k /\ k <= 7)

\* C10 amended: ... and the key 0x05 || w1 || 0x00 || w2 || k is at most 511
\* bytes long; every key of the sub-store is such a key with 1 <= k <= 7, and
\* the two orders of a pair of different words have different keys.
ProximityPostingsExactForValidKeys ==
    Committed =>
      /\ \A d \in RecordIds : \A w1 \in Words : \A w2 \in Words : \A k \in 0 .. MAX_DISTANCE :
           /\ InProximityPostings(d, w1, w2, k)
                <=> /\ HasProximity(d, w1, w2, k)
                    /\ 1 <= k /\ k <= 7
                    /\ ByteLen(ProximityKey(w1, w2, k)) <= LMDB_MAX_KEY_LENGTH
           /\ w1 # w2 => ProximityKey(w1, w2, k) # ProximityKey(w2, w1, k)
      /\ \A key \in DOMAIN db.word_pair_proximity_docids :
           /\ db.word_pair_proximity_docids[key] \subseteq RecordIds
           /\ \E w1 \in Words : \E w2 \in Words : \E k \in 1 .. 7 :
                key = DropBytes(ProximityKey(w1, w2, k), 1)

\* Committed: a pair within proximity 7 whose key is too long and is not
\* stored, and a pair stored at proximity 2 that is also at distance 8
\* across attributes, which is not stored.
ProximityPostingsExactWitness ==
    /\ Committed
    /\ \E d \in RecordIds : \E k \in 1 .. 7 :
         /\ HasProximity(d, TokA, TokLong, k)
         /\ ~InProximityPostings(d, TokA, TokLong, k)
    /\ \E d \in RecordIds :
         /\ InProximityPostings(d, TokB, TokA, 2)
         /\ HasProximity(d, TokB, TokA, MAX_DISTANCE)
         /\ ~InProximityPostings(d, TokB, TokA, MAX_DISTANCE)

\* C12: for an input of a header row and no record, with any number of
\* workers, a committed run leaves main["documents-ids"] the empty set,
\* main["words-fst"] the empty set, main["headers"] the header row, and the
\* four other sub-stores empty.
EmptyBody ==
    (Committed /\ input.records = <<>>) =>
      /\ DOMAIN db.main = {"headers", "documents-ids", "words-fst"}
      /\ db.main["documents-ids"] = {}
      /\ db.main["words-fst"] = {}
      /\ db.main["headers"] = bytes_encode(input.headers)
      /\ db.word_docids = <<>>
      /\ db.docid_word_positions = <<>>
      /\ db.word_pair_proximity_docids = <<>>
      /\ db.documents = <<>>

\* An input without records committed by several workers.
EmptyBodyWitness ==
    /\ Committed
    /\ input.records = <<>>
    /\ num_threads >= 2
    /\ db.main["headers"] = bytes_encode(input.headers)

\* The union of the values a sorter holds under a key, in memory and in chunks.
SorterUnion(sorter, k) ==
    (IF k \in DOMAIN sorter.mem THEN UnionAll(sorter.mem[k]) ELSE {})
    \cup UNION { sorter.chunks[i][k] : i \in { j \in DOMAIN sorter.chunks : k \in DOMAIN sorter.chunks[j] } }

\* The ids below n that the worker indexes and whose record contains the word.
IdsWithWord(w, word, n) ==
    { d \in 0 .. (n - 1) :
        /\ Assigned(d, num_threads, w)
        /\ word \in DOMAIN WordPositions(Record(d)) }

PostingsWritten ==
    /\ DOMAIN wtxn.main = {"words-fst", "headers", "documents-ids"}
    /\ \A w \in Workers : \A k \in DOMAIN readers[w].postings :
         \/ k \in {WORDS_FST_KEY, HEADERS_KEY, DOCUMENTS_IDS_KEY}
         \/ DropBytes(k, 1) \in DOMAIN wtxn.word_docids
         \/ DropBytes(k, 1) \in DOMAIN wtxn.docid_word_positions
         \/ DropBytes(k, 1) \in DOMAIN wtxn.word_pair_proximity_docids

\* The entries of the workers' documents tables are all in the transaction.
DocumentsWritten ==
    \A w \in Workers : \A k \in DOMAIN readers[w].docs :
      from_be_bytes(k) \in DOMAIN wtxn.documents

\* C18: the phases of the store writes are ordered. While a worker is still
\* indexing or finalizing nothing is in the write transaction and main has
\* not opened it; main is past the collect only when all N workers returned
\* their two tables; a documents entry is in the transaction only when all
\* the postings entries are; the commit is executed only after all the
\* documents entries are written.
PhaseOrdering ==
    /\ (\E w \in Workers : wpc[w] \in {"headers", "records"}) =>
         (mpc = "indexing" /\ wtxn = EmptyDb /\ commits = 0)
    /\ mpc = "indexing" => wtxn = EmptyDb
    /\ mpc \in {"postings", "documents", "commit", "done"} =>
         \A w \in Workers : wpc[w] = "done"
    /\ mpc = "postings" => wtxn = EmptyDb
    /\ DOMAIN wtxn.documents # {} => (PostingsWritten /\ mpc \in {"commit", "done", "failed"})
    /\ mpc \in {"documents", "commit", "done"} => PostingsWritten
    /\ mpc \in {"commit", "done"} => DocumentsWritten
    /\ commits > 0 => (mpc = "done" /\ PostingsWritten /\ DocumentsWritten)

\* Several workers returned at different times and the run committed
\* postings and documents.
PhaseOrderingWitness ==
    /\ Committed
    /\ num_threads >= 2
    /\ commits = 1
    /\ DOMAIN wtxn.documents # {}
    /\ DOMAIN wtxn.word_docids # {}

StrictlyIncreasing(keys) ==
    \A i \in 1 .. (Len(keys) - 1) : BytesLess(keys[i], keys[i + 1])

\* The keys the writers of a Store can insert into its postings sorter.
SorterKeySpace ==
    {HEADERS_KEY, DOCUMENTS_IDS_KEY}
    \cup { WordDocidsKey(w) : w \in Words }
    \cup { PositionsKey(d, w) : d \in 0 .. MaxRecords, w \in Words }
    \cup { ProximityKey(w1, w2, k) : w1 \in Words, w2 \in Words, k \in 1 .. 7 }

\* C19: the local output is sorted. A worker that finished has inserted the
\* keys of its postings table into the Writer in strictly increasing byte
\* order, each key once; the words it inserted into the FST builder are
\* strictly increasing; the FST sentinel key is the last insertion and is
\* greater than every key the sorter yields or can yield (headers,
\* positional, word-docids, documents-ids and proximity keys).
SortedLocalOutput ==
    /\ \A k \in SorterKeySpace : BytesLess(k, WORDS_FST_KEY)
    /\ \A w \in Workers :
         /\ \A k \in SorterKeys(store[w].sorter) : BytesLess(k, WORDS_FST_KEY)
         /\ wpc[w] = "done" =>
              LET r == readers[w]
              IN  /\ StrictlyIncreasing(r.written)
                  /\ { r.written[i] : i \in DOMAIN r.written } = DOMAIN r.postings
                  /\ Len(r.written) = Cardinality(DOMAIN r.postings)
                  /\ r.written[Len(r.written)] = WORDS_FST_KEY
                  /\ StrictlyIncreasing(r.fst_inserts)
                  /\ { r.fst_inserts[i] : i \in DOMAIN r.fst_inserts } = r.postings[WORDS_FST_KEY]

\* A worker finished with keys of the five classes before the sentinel and
\* two words in the FST.
SortedLocalOutputWitness ==
    \E w \in Workers :
      /\ wpc[w] = "done"
      /\ Len(readers[w].fst_inserts) >= 2
      /\ \A b \in {HEADERS_BYTE, WORD_DOCID_POSITIONS_BYTE, WORD_DOCIDS_BYTE,
                   DOCUMENTS_IDS_BYTE, WORDS_PROXIMITIES_BYTE} :
           \E i \in 1 .. (Len(readers[w].written) - 1) : FirstByte(readers[w].written[i]) = b

\* C13: in stdin mode a failure of the producer, a read error on the
\* standard input or a write error on a pipe, is an error of the run: a run
\* whose producer failed does not commit.
ProducerFailureAborts ==
    producer.pc = "failed" => (mpc # "done" /\ commits = 0)

\* The rows a worker's reader has taken out of its pipe.
RowsRead(w) ==
    IF wpc[w] = "headers" THEN 0
    ELSE IF wpc[w] \in {"records", "done"} THEN 1 + document_id[w]
    ELSE 0

\* C16: the broadcast of the standard input is a duplication in order. At
\* every moment what was written into a worker's pipe is a prefix of what was
\* read from the standard input, at most the block being written is missing
\* from it, the writers before the current one have that block and the
\* others not yet; what is in the pipe is the part of it the worker has not
\* read; and when the producer returns at the end of the input every pipe
\* has received the whole input.
StdinBroadcast ==
    ReadsStdin =>
      \A w \in Workers :
        LET sent == producer.sent[w]
        IN  /\ Len(sent) <= producer.read
            /\ producer.read <= Len(Stream)
            /\ sent = SubSeq(Stream, 1, Len(sent))
            /\ Len(sent) >= producer.read - 1
            /\ producer.pc = "read" => Len(sent) = producer.read
            /\ producer.pc = "write" =>
                 Len(sent) = IF w < producer.cur THEN producer.read ELSE producer.read - 1
            /\ producer.pc = "closed" => sent = Stream
            /\ Len(pipes[w]) <= PipeCapacity
            /\ (producer.pc # "failed" /\ wpc[w] \in {"headers", "records", "done"}) =>
                 /\ RowsRead(w) + Len(pipes[w]) = Len(sent)
                 /\ pipes[w] = SubSeq(sent, RowsRead(w) + 1, Len(sent))

\* The producer returned at the end of an input of several rows and several
\* pipes, one of them still full while another was emptied.
StdinBroadcastWitness ==
    /\ producer.pc = "closed"
    /\ num_threads >= 2
    /\ Len(input.records) >= 2
    /\ \A w \in Workers : producer.sent[w] = Stream
    /\ \E w \in Workers : Len(pipes[w]) = PipeCapacity
    /\ \E w \in Workers : pipes[w] = <<>> /\ wpc[w] = "records"

Terminated == mpc \in {"done", "failed", "panicked"}

\* C17: stdin mode terminates. With bounded pipes, a producer that writes
\* each block to the pipes one after the other and waits on a full pipe, and
\* workers that each read their own pipe, on a finite input and under fair
\* scheduling the producer reads the end of the input and drops its writers,
\* every worker observes the end of its input and finishes, and the run
\* commits; no state before the end of the run is a deadlock.
StdinTerminates ==
    /\ <>(/\ producer.pc = "closed"
          /\ \A w \in Workers : wpc[w] = "done"
          /\ mpc = "done"
          /\ commits = 1)
    /\ [](Terminated \/ ENABLED NextStdinFair)

\* The producer waits on the full pipe of a worker that has not started to
\* read, while a worker further on waits on its empty pipe.
StdinTerminatesWitness ==
    /\ producer.pc = "write"
    /\ num_threads >= 2
    /\ producer.cur = 0
    /\ Len(pipes[0]) = PipeCapacity
    /\ wpc[0] = "headers"
    /\ wpc[1] = "records"
    /\ pipes[1] = <<>>
    /\ ~ENABLED ProducerStep

\* ------------------------------------------------- the merge callback alone
\* The program at rest around a callback or a loop taken on its own: no
\* input, one worker, nothing indexed.
InitUnit ==
    /\ input = [headers |-> <<>>, records |-> <<>>]
    /\ num_threads = 1
    /\ arc_cache_size = 1
    /\ store = [ w \in Workers |-> StoreNew ]
    /\ wpc = [ w \in Workers |-> "headers" ]
    /\ document_id = [ w \in Workers |-> 0 ]
    /\ readers = [ w \in Workers |-> NoReaders ]
    /\ mpc = "indexing"
    /\ wtxn = EmptyDb
    /\ db = EmptyDb
    /\ commits = 0
    /\ panic = "none"
    /\ prev = NoPrev
    /\ pipes = [ w \in Workers |-> <<>> ]
    /\ producer = NoProducer

\* The keys of the union classes, and the values that meet under one of them:
\* bitmaps of document ids, or sets of words under the FST key.
UnionKeys ==
    { WordDocidsKey(TokA), DOCUMENTS_IDS_KEY, ProximityKey(TokA, TokB, 1), WORDS_FST_KEY }

UnionValues(key) ==
    IF key = WORDS_FST_KEY THEN SUBSET {TokA, TokB} ELSE SUBSET (0 .. (MaxRecords - 1))

\* The values of one key as the chunks, workers and tables hold them.
InitMerge ==
    /\ InitUnit
    /\ scan = NoScan
    /\ counting = NoCounting
    /\ \E key \in UnionKeys : \E n \in 2 .. MaxValues :
         \E values \in [1 .. n -> UnionValues(key)] :
           merging = [key |-> key, orig |-> values, values |-> values, rounds |-> 0]

\* The ways of taking two or more of the values, in any order.
Arrangements(indexes) ==
    { p \in UNION { [1 .. n -> indexes] : n \in 2 .. Cardinality(indexes) } :
        \A i, j \in DOMAIN p : i # j => p[i] # p[j] }

\* The values left aside by a round, in their order.
Remaining(values, picked) ==
    LET idx == DOMAIN values \ picked
    IN  [ j \in 1 .. Cardinality(idx) |->
            values[CHOOSE i \in idx : Cardinality({ x \in idx : x <= i }) = j] ]

\* One merge round: a sorter or a merger hands some of the values of the key
\* to the callback, in the order its sources have them, and keeps the result
\* as one more value of the key.
MergeRound ==
    /\ merging.key # <<>>
    /\ panic = "none"
    /\ Len(merging.values) >= 2
    /\ \E picks \in Arrangements(DOMAIN merging.values) :
         LET r == merge(merging.key, [ i \in DOMAIN picks |-> merging.values[picks[i]] ])
             rest == Remaining(merging.values, { picks[i] : i \in DOMAIN picks })
         IN  /\ panic' = r.panic
             /\ merging' = [merging EXCEPT !.values = rest \o <<r.val>>,
                                           !.rounds = @ + 1]
    /\ UNCHANGED << input, num_threads, arc_cache_size, store, wpc, document_id,
                    readers, mpc, wtxn, db, commits, prev, producer, pipes, scan,
                    counting >>

NextMerge == MergeRound

SpecMerge == InitMerge /\ [][NextMerge]_vars

\* C20: under a key of the union classes (prefix 2, 4, 5, or the FST key) the
\* callback returns the union of the values it is given, in whatever order
\* they come and however they were first merged into partial results, so the
\* value left at the end is the union of the values the key started with.
MergeOrderInsensitive ==
    merging.key # <<>> =>
      /\ panic = "none"
      /\ UnionAll(merging.values) = UnionAll(merging.orig)
      /\ \A picks \in Arrangements(DOMAIN merging.values) :
           merge(merging.key, [ i \in DOMAIN picks |-> merging.values[picks[i]] ])
             = Merged(UNION { merging.values[picks[i]] : i \in DOMAIN picks })
      /\ Len(merging.values) = 1 => merging.values[1] = UnionAll(merging.orig)

\* Three values, two of them the same and none the union, merged in two
\* rounds under a proximity key.
MergeOrderInsensitiveWitness ==
    /\ merging.key = ProximityKey(TokA, TokB, 1)
    /\ merging.orig = << {0}, {1}, {0} >>
    /\ merging.rounds = 2
    /\ merging.values = << {0, 1} >>

\* ------------------------------------------- documents tables that collide
\* The (id, record) entries a worker's documents sorter may be given, with
\* ids that may repeat in one worker and across workers.
DocumentEntries == { <<id, record>> : id \in 0 .. (MaxRecords - 1), record \in StdinRecordPool }

RECURSIVE InsertDocuments(_, _)
InsertDocuments(sorter, entries) ==
    IF entries = <<>> THEN sorter
    ELSE InsertDocuments(SorterInsert(sorter, to_be_bytes(entries[1][1]), bytes_encode(entries[1][2])),
                         Tail(entries))

\* Every worker at the end of its input with such entries in its documents
\* sorter: finish, the collection of the readers and the two merges follow.
InitDocsMerge ==
    /\ input = [headers |-> <<>>, records |-> <<>>]
    /\ num_threads = MaxThreads
    /\ arc_cache_size = 1
    /\ \E entries \in [Workers -> SeqsUpTo(DocumentEntries, 2)] :
         store = [ w \in Workers |->
                     [StoreNew EXCEPT !.documents_sorter = InsertDocuments(@, entries[w]),
                                      !.documents_ids = { entries[w][i][1] : i \in DOMAIN entries[w] }] ]
    /\ wpc = [ w \in Workers |-> "records" ]
    /\ document_id = [ w \in Workers |-> 0 ]
    /\ readers = [ w \in Workers |-> NoReaders ]
    /\ mpc = "indexing"
    /\ wtxn = EmptyDb
    /\ db = EmptyDb
    /\ commits = 0
    /\ panic = "none"
    /\ prev = NoPrev
    /\ pipes = [ w \in Workers |-> <<>> ]
    /\ producer = NoProducer
    /\ merging = NoMerging
    /\ scan = NoScan
    /\ counting = NoCounting

NextDocsMerge ==
    \/ \E w \in Workers : Finish(w)
    \/ Collect
    \/ MergePostings
    \/ MergeDocuments
    \/ Commit

SpecDocsMerge == InitDocsMerge /\ [][NextDocsMerge]_vars

\* Two workers have returned documents tables that hold the same id.
GlobalCollision ==
    \E i, j \in Workers :
      /\ i # j
      /\ wpc[i] = "done"
      /\ wpc[j] = "done"
      /\ DOMAIN readers[i].docs \cap DOMAIN readers[j].docs # {}

Limb == 65536

\* The usize value of attr * MAX_POSITION + pos (64 bits: it cannot overflow
\* for the counts of a record).
PositionUsize(attr, pos) ==
    LET low == (attr % Limb) * MAX_POSITION + pos
    IN  [hi |-> (attr \div Limb) * MAX_POSITION + low \div Limb, lo |-> low % Limb]

\* `as u32`: the value modulo 2^32.
as_u32(v) == [hi |-> v.hi % Limb, lo |-> v.lo]

LimbsLess(a, b) == a.hi < b.hi \/ (a.hi = b.hi /\ a.lo < b.lo)

\* The two loops over a record of `columns` fields of `tokens` tokens each
\* visit (attr, pos) with every column taken, take(MAX_ATTRIBUTES) left out.
VisitsEveryColumn(columns, tokens, attr, pos) ==
    /\ attr < columns
    /\ pos < Min(tokens, MAX_POSITION)

\* enumerate().take(MAX_ATTRIBUTES) over the fields and
\* enumerate().take(MAX_POSITION) over the tokens of a field.
Visits(columns, tokens, attr, pos) ==
    /\ attr < Min(columns, MAX_ATTRIBUTES)
    /\ pos < Min(tokens, MAX_POSITION)

\* Records around the two limits, and the indexes looked at in them.
ColumnCounts == {1, 2, MAX_ATTRIBUTES - 1, MAX_ATTRIBUTES, MAX_ATTRIBUTES + 1, MAX_ATTRIBUTES + 2}
TokenCounts == {1, 2, MAX_POSITION - 1, MAX_POSITION, MAX_POSITION + 1}
AttrSamples == {0, 1, MAX_ATTRIBUTES - 1, MAX_ATTRIBUTES, MAX_ATTRIBUTES + 1}
PosSamples == {0, 1, 296, MAX_POSITION - 1, MAX_POSITION}

InitPositions ==
    /\ InitUnit
    /\ merging = NoMerging
    /\ \E columns \in ColumnCounts : \E tokens \in TokenCounts :
         scan = [columns |-> columns, tokens |-> tokens, inserted |-> {}]
    /\ counting = NoCounting

\* One turn of the inner loop: the position of (attr, pos) is inserted in the
\* bitmap of the word.
InsertPosition ==
    /\ Cardinality(scan.inserted) < MaxInserted
    /\ \E attr \in AttrSamples : \E pos \in PosSamples :
         /\ Visits(scan.columns, scan.tokens, attr, pos)
         /\ \A e \in scan.inserted : e.attr # attr \/ e.pos # pos
         /\ scan' = [scan EXCEPT !.inserted =
                        @ \cup {[attr |-> attr, pos |-> pos,
                                 position |-> as_u32(PositionUsize(attr, pos))]}]
    /\ UNCHANGED << input, num_threads, arc_cache_size, store, wpc, document_id,
                    readers, mpc, wtxn, db, commits, panic, prev, producer, pipes,
                    merging, counting >>

NextPositions == InsertPosition

SpecPositions == InitPositions /\ [][NextPositions]_vars

\* C11: every stored position is attr * MAX_POSITION + pos with
\* attr < MAX_ATTRIBUTES and pos < MAX_POSITION, lies below
\* MAX_ATTRIBUTES * MAX_POSITION, is unchanged by the cast to u32, and
\* differs from the position of every other (attr, pos); columns from
\* MAX_ATTRIBUTES on and tokens from MAX_POSITION on insert nothing.
PositionRange ==
    /\ \A e \in scan.inserted :
         /\ e.attr < MAX_ATTRIBUTES
         /\ e.pos < MAX_POSITION
         /\ e.attr < scan.columns
         /\ e.pos < scan.tokens
         /\ e.position = PositionUsize(e.attr, e.pos)
         /\ e.position.hi < Limb
         /\ LimbsLess(e.position, PositionUsize(MAX_ATTRIBUTES, 0))
    /\ \A e, f \in scan.inserted : e.position = f.position => e = f

\* A record with more columns and more tokens than the limits, in which the
\* last column and the last token taken, and the first ones, have been seen.
PositionRangeWitness ==
    /\ scan.columns > MAX_ATTRIBUTES
    /\ scan.tokens > MAX_POSITION
    /\ \E e, f \in scan.inserted :
         /\ e.attr = MAX_ATTRIBUTES - 1
         /\ e.pos = MAX_POSITION - 1
         /\ e.position = [hi |-> 65535, lo |-> 65239]
         /\ f.attr = 0
         /\ f.pos = 0

\* --------------------------------------------- record indexes at full width
\* The counter `document_id: usize` of index_csv and a DocumentId (u32), as
\* two limbs; usize has 64 bits, so the counter itself does not overflow.
Succ(v) == IF v.lo = Limb - 1 THEN [hi |-> v.hi + 1, lo |-> 0] ELSE [v EXCEPT !.lo = @ + 1]

RECURSIVE Advance(_, _)
Advance(v, n) == IF n = 0 THEN v ELSE Advance(Succ(v), n - 1)

\* document_id % num_threads.
LimbsMod(v, n) == ((v.hi % n) * (Limb % n) + (v.lo % n)) % n

\* DocumentId::try_from(document_id) as a cast: every index gets an id, the
\* index modulo 2^32.
try_from_wrapping(index) == [ok |-> TRUE, id |-> as_u32(index)]

\* DocumentId::try_from(document_id): an error above u32::MAX.
try_from(index) ==
    IF index.hi < Limb THEN [ok |-> TRUE, id |-> index] ELSE [ok |-> FALSE, id |-> index]

\* The workers have read the records up to MaxRecords before index 2^32; the
\* input goes on for up to MaxRecords records beyond it. What the earlier
\* records left in the Stores is left out: no step below reads it.
FirstIndex == [hi |-> Limb - 1, lo |-> Limb - MaxRecords]

InitCounting ==
    /\ input = [headers |-> <<>>, records |-> <<>>]
    /\ num_threads \in 1 .. MaxThreads
    /\ arc_cache_size = 1
    /\ store = [ w \in Workers |-> StoreNew ]
    /\ wpc = [ w \in Workers |-> "records" ]
    /\ document_id = [ w \in Workers |-> 0 ]
    /\ readers = [ w \in Workers |-> NoReaders ]
    /\ mpc = "indexing"
    /\ wtxn = EmptyDb
    /\ db = EmptyDb
    /\ commits = 0
    /\ panic = "none"
    /\ prev = NoPrev
    /\ pipes = [ w \in Workers |-> <<>> ]
    /\ producer = NoProducer
    /\ merging = NoMerging
    /\ scan = NoScan
    /\ \E more \in 0 .. (2 * MaxRecords) :
         counting = [ total |-> Advance(FirstIndex, more),
                      index |-> [ w \in Workers |-> FirstIndex ],
                      converted |-> [ w \in Workers |-> {} ] ]

\* One turn of the loop of index_csv on a record of the input: a record of
\* the worker's residue class has its index converted, and the error of the
\* conversion is returned; any other record only moves the counter.
ReadRecord(w) ==
    /\ wpc[w] = "records"
    /\ counting.index[w] # counting.total
    /\ IF LimbsMod(counting.index[w], num_threads) = w
       THEN LET r == try_from(counting.index[w])
            IN  /\ counting' = [counting EXCEPT
                      !.converted[w] = @ \cup {[index |-> counting.index[w], result |-> r]},
                      !.index[w] = IF r.ok THEN Succ(@) ELSE @]
                /\ wpc' = [wpc EXCEPT ![w] = IF r.ok THEN "records" ELSE "failed"]
                /\ store' = [store EXCEPT ![w] = IF r.ok THEN @ ELSE StoreNew]
       ELSE /\ counting' = [counting EXCEPT !.index[w] = Succ(@)]
            /\ UNCHANGED << wpc, store >>
    /\ UNCHANGED << input, num_threads, arc_cache_size, document_id, readers, mpc,
                    wtxn, db, commits, panic, prev, producer, pipes, merging, scan >>

\* read_record returned false after the last record.
FinishCounted(w) ==
    /\ counting.index[w] = counting.total
    /\ Finish(w)

NextCounting ==
    \/ \E w \in Workers : ReadRecord(w)
    \/ \E w \in Workers : FinishCounted(w)
    \/ Collect
    \/ MergePostings
    \/ MergeDocuments
    \/ Commit

SpecCounting == InitCounting /\ [][NextCounting]_vars

\* The first index that is no DocumentId.
TooBig == [hi |-> Limb, lo |-> 0]

\* C21: an index above u32::MAX is never turned into a document id: the
\* worker whose residue class holds it fails at the conversion, and a run
\* whose input has such a record never commits; a worker converts the
\* indexes of its own residue class only, and every id is its index.
DocumentIdOverflowAborts ==
    /\ \A w \in Workers : \A c \in counting.converted[w] :
         /\ LimbsMod(c.index, num_threads) = w
         /\ c.result.ok => (c.result.id = c.index /\ c.index.hi < Limb)
         /\ c.index.hi >= Limb => (~c.result.ok /\ wpc[w] = "failed")
    /\ \A w \in Workers :
         (LimbsLess(TooBig, counting.index[w]) /\ LimbsMod(TooBig, num_threads) = w)
           => wpc[w] = "failed"
    /\ LimbsLess(TooBig, counting.total)
         => (commits = 0 /\ mpc \notin {"postings", "documents", "commit", "done"})

\* Two workers and an input that goes beyond index 2^32: the worker of that
\* record has failed at it, the other one has skipped it and finished, and
\* main has returned the error.
DocumentIdOverflowAbortsWitness ==
    /\ num_threads = 2
    /\ LimbsLess(TooBig, counting.total)
    /\ \E w, v \in Workers :
         /\ wpc[w] = "failed"
         /\ counting.index[w] = TooBig
         /\ [index |-> TooBig, result |-> [ok |-> FALSE, id |-> TooBig]] \in counting.converted[w]
         /\ wpc[v] = "done"
         /\ counting.index[v] = counting.total
         /\ \A c \in counting.converted[v] : c.index.hi < Limb
    /\ mpc = "failed"
    /\ commits = 0

====
